---- MODULE Spec2Model ----
(***************************************************************************)
(* A model of the price-tracking service of src/main.py: the three HTTP    *)
(* handlers (GET /price/{currency}, GET /price/history/{currency},         *)
(* DELETE /delete/{currency}) and the PostgreSQL store they share.         *)
(*                                                                         *)
(* Every handler opens its own psycopg2 connection (autocommit off), so    *)
(* the statements of one request form one transaction that is made durable *)
(* by connection.commit() and rolled back by connection.close().  The      *)
(* store is shared by every worker process that serves the application,    *)
(* so the statements of different requests interleave; a request is a slot *)
(* of `req` and one action is one store step of a handler (the statement   *)
(* that ends the request taken together with the finally block and the     *)
(* response), or the handler's code before its first store step.           *)
(***************************************************************************)
EXTENDS Integers, Sequences, FiniteSets, TLC

(* ------------------------------ bounds -------------------------------- *)

\* Rows the store may hold (price requests are admitted up to it).
MaxRows == 2

\* Worker processes, each serving one request at a time.
Slots == {1, 2}

\* Path parameters: strings as tuples of characters.
Currencies == { <<"b", "t", "c">>, <<"B", "t", "C">>, <<"e", "0">> }

\* Bid prices the exchange may report.
Prices == {10, 20}

\* Ticker timestamps in milliseconds since the epoch: two within one second
\* and one in the next.
Timestamps == {1000, 1999, 2000}

\* The deployments explored: the worker processes serving the application,
\* the currencies its clients ask for and the timestamps the exchange reports.
\* The entry point of main.py, uvicorn.run(app), is one process, whose async
\* handlers run one after the other: it is explored with two currencies, and
\* with two spellings of one currency.  Several processes on one store
\* contend for the table of a currency.
Deployments ==
    { [workers |-> {1},    paths |-> { <<"b", "t", "c">>, <<"e", "0">> },
       stamps |-> {1999, 2000}],
      [workers |-> {1},    paths |-> { <<"b", "t", "c">>, <<"B", "t", "C">> },
       stamps |-> {1000, 1999}],
      [workers |-> {1, 2}, paths |-> { <<"B", "t", "C">> },
       stamps |-> {1999}] }

\* Errors ccxt may raise from fetch_ticker (subclasses of ccxt.BaseError).
ExchangeErrors == {"BadSymbol", "NetworkError"}

(* ------------------------------ values -------------------------------- *)

\* Python's None, and a present value, as sets of at most one element.
None == {}

Some(x) == {x}

Val(o) == CHOOSE x \in o : TRUE

NoException == [type |-> "", msg |-> <<>>]

NoResponse == [status |-> 0, kind |-> "none", body |-> <<>>]

NoTicker == [bid |-> None, timestamp |-> None]

EmptyTable == [present |-> FALSE, rows |-> <<>>]

(* ------------------------- string operations -------------------------- *)

LowerLetters == <<"b", "t", "c", "e", "h", "u", "s", "d">>

UpperLetters == <<"B", "T", "C", "E", "H", "U", "S", "D">>

IndexOf(letters, ch) == CHOOSE i \in DOMAIN letters : letters[i] = ch

\* str.upper(), one character.
UpperChar(ch) ==
    IF \E i \in DOMAIN LowerLetters : LowerLetters[i] = ch
    THEN UpperLetters[IndexOf(LowerLetters, ch)]
    ELSE ch

\* str.lower(), one character.
LowerChar(ch) ==
    IF \E i \in DOMAIN UpperLetters : UpperLetters[i] = ch
    THEN LowerLetters[IndexOf(UpperLetters, ch)]
    ELSE ch

Upper(str) == [i \in DOMAIN str |-> UpperChar(str[i])]

Lower(str) == [i \in DOMAIN str |-> LowerChar(str[i])]

\* str.replace(old, new) for one-character old and new.
Replace(str, old, new) == [i \in DOMAIN str |-> IF str[i] = old THEN new ELSE str[i]]

(* ----------------- symbol, table name, date (per handler) ------------- *)

Usdt == <<"/", "U", "S", "D", "T">>

\* price: currency_symbol = f"{currency.upper()}/USDT"
PriceCurrencySymbol(currency) == Upper(currency) \o Usdt

\* price: table_name = currency_symbol.replace("/", "_").lower()
PriceTableName(currency) == Lower(Replace(PriceCurrencySymbol(currency), "/", "_"))

\* price_history: the same two lines of its own.
HistoryCurrencySymbol(currency) == Upper(currency) \o Usdt

\* A table name that is not lowercased.
HistoryTableNameAsGiven(currency) == Replace(HistoryCurrencySymbol(currency), "/", "_")

HistoryTableName(currency) == Lower(Replace(HistoryCurrencySymbol(currency), "/", "_"))

\* delete_table: the same two lines of its own.
DeleteCurrencySymbol(currency) == Upper(currency) \o Usdt

DeleteTableName(currency) == Lower(Replace(DeleteCurrencySymbol(currency), "/", "_"))

\* Every name a handler can derive: the names the store is asked about.
TableNames ==
    UNION { {PriceTableName(c), HistoryTableName(c), DeleteTableName(c)} : c \in Currencies }

\* datetime.fromtimestamp(timestamp / 1_000).strftime('%Y-%m-%d %H:%M:%S'):
\* the second the millisecond timestamp falls in (a date is named by its
\* count of seconds; the sub-second part is dropped by the format).
FormatDate(timestamp) == timestamp \div 1000

Dates == { FormatDate(t) : t \in Timestamps }

(* ------------------------------- state -------------------------------- *)

VARIABLES
    deploy,   \* the deployment: its worker processes and the currencies asked for
    req,      \* req[s]: the locals of the request in slot s and its position
    db,       \* db[t]: the committed state of table t (present, rows in insertion order)
    nconn,    \* connections the store has open
    served,   \* history: served[t], the <<date, price, currency>> of the price requests that
              \*          stored their row in t and returned, with no DELETE request
              \*          for t in flight then or issued since
    dropped   \* history: dropped[t], a DELETE request dropped t while no other
              \*          request for t was in flight, and no price request for t
              \*          has reached its store steps since

vars == <<deploy, req, db, nconn, served, dropped>>

\* A slot with no request in it yet.
Idle ==
    [ op       |-> "none",        \* price | history | delete
      pc       |-> "done",        \* connect, exist, create, insert, select, drop, done
      currency |-> <<>>,          \* the path parameter
      table    |-> <<>>,          \* table_name
      fetch    |-> "",            \* price: "ok", or the ccxt error fetch_ticker raised
      ticker   |-> NoTicker,      \* price: what fetch_ticker returned
      date     |-> 0,             \* price: date
      bid      |-> 0,             \* price: last_bid_price (once known not to be None)
      was      |-> FALSE,         \* history: the table was there when the request
                                  \*          (a history or DELETE request) was issued
      called   |-> FALSE,         \* history: connect() has been called
      conn     |-> FALSE,         \* the request has a connection open
      exists   |-> "?",           \* what table_exist returned: yes | no
      held     |-> "none",        \* what the transaction holds (held when it ended):
                                  \* create, a table only it can see
      exc      |-> NoException,   \* the exception that ended the try block
      stored   |-> FALSE,         \* price: insert_data_to_table returned
      resp     |-> NoResponse ]   \* the response, once the request is done

Init ==
    /\ deploy \in Deployments
    /\ req = [s \in Slots |-> Idle]
    /\ db = [t \in TableNames |-> EmptyTable]
    /\ nconn = 0
    /\ served = [t \in TableNames |-> {}]
    /\ dropped = [t \in TableNames |-> FALSE]

(* ------------------------------ helpers ------------------------------- *)

InFlight(s) == req[s].pc # "done"

\* A request is served by the lowest worker that is free (which worker serves
\* a request is of no consequence to it).
Free(s) ==
    /\ s \in deploy.workers
    /\ ~InFlight(s)
    /\ \A o \in deploy.workers : o < s => InFlight(o)

\* Another request's open transaction holds a lock of one of `kinds` on t.
OthersHold(s, kinds, t) ==
    \E o \in Slots \ {s} : InFlight(o) /\ req[o].table = t /\ req[o].held \in kinds

\* Another request for table t is in flight.
OthersInFlight(s, t) == \E o \in Slots \ {s} : InFlight(o) /\ req[o].table = t

DeleteInFlight(t) == \E o \in Slots : InFlight(o) /\ req[o].op = "delete" /\ req[o].table = t

RECURSIVE SumRows(_)
SumRows(ts) ==
    IF ts = {} THEN 0
    ELSE LET t == CHOOSE x \in ts : TRUE IN Len(db[t].rows) + SumRows(ts \ {t})

\* Rows the store holds or may come to hold through the price requests in flight.
RowsClaimed ==
    SumRows(TableNames)
      + Cardinality({o \in Slots : InFlight(o) /\ req[o].op = "price"})

OperationalError == [type |-> "psycopg2.OperationalError", msg |-> <<"connection failure">>]

DuplicateTable(t) ==
    [type |-> "psycopg2.errors.DuplicateTable", msg |-> <<"relation ", t, " already exists">>]

UndefinedTable(t) ==
    [type |-> "psycopg2.errors.UndefinedTable", msg |-> <<"relation ", t, " does not exist">>]

\* raise Exception(f"Table {table_name} does not exist.")
TableMissing(t) == [type |-> "Exception", msg |-> <<"Table ", t, " does not exist.">>]

\* raise HTTPException(status_code=400, detail=...)
HTTPException(detail) == [status |-> 400, kind |-> "http_error", body |-> detail]

\* An exception no handler catches: the server answers 500.
Unhandled(exc) == [status |-> 500, kind |-> "server_error", body |-> exc]

\* What a finished request leaves in its slot: its locals and its response,
\* its connection closed and its transaction over.
Done(r, exc, resp) ==
    [r EXCEPT !.pc = "done", !.conn = FALSE, !.exc = exc, !.resp = resp]

\* The outcome of a finished request is to be seen in its slot until the next
\* step of the service.
Settle(r) == IF r.pc = "done" THEN Idle ELSE r

\* The request of worker s goes on as r, in the same deployment.
Step(s, r) ==
    /\ req' = [o \in Slots |-> IF o = s THEN r ELSE Settle(req[o])]
    /\ deploy' = deploy

\* table_exist: the catalog lists the committed tables, by name alone.
table_exist(t) == db[t].present

\* A finally block that leaves the connection open.
closeNever(s) == nconn

\* connection.close() when connection is not None: the store ends the session.
close(s) == IF req[s].conn THEN nconn - 1 ELSE nconn

\* connect(): psycopg2.connect(**config()) returns a connection ...
connect(r) == [r EXCEPT !.called = TRUE, !.conn = TRUE, !.pc = "exist"]

\* ... or raises (database.ini has no section, the store is unreachable).
connect_raises(r) == [r EXCEPT !.called = TRUE]

(* ------------------------- GET /price/{currency} ---------------------- *)
(* A statement that raises ends the request in the same action: the except *)
(* and finally blocks and the return touch nothing but the request's own   *)
(* connection, whose close rolls back what the transaction did not commit. *)
(* A commit likewise ends the request in the action of its statement: what *)
(* a statement locks until the commit only delays the other requests.      *)

\* A price handler whose except clause lets the store's error out.
PriceFinallyRaises(s, r, exc) ==
    /\ Step(s, Done(r, exc,
                    IF exc = NoException
                    THEN [status |-> 200, kind |-> "price",
                          body |-> [currency |-> r.currency,
                                    last_bid_price |-> r.bid,
                                    time |-> r.date]]
                    ELSE Unhandled(exc)))
    /\ nconn' = close(s)
    /\ served' = IF r.stored /\ ~DeleteInFlight(r.table)
                 THEN [served EXCEPT ![r.table] = @ \cup {<<r.date, r.bid, r.currency>>}]
                 ELSE served

\* except (Exception, psycopg2.Error): print; finally: cursor.close(),
\* connection.close(); return {"currency": ..., "last_bid_price": ..., "time": ...}
PriceFinally(s, r, exc) ==
    /\ Step(s, Done(r, exc,
                    [status |-> 200, kind |-> "price",
                     body |-> [currency |-> r.currency,
                               last_bid_price |-> r.bid,
                               time |-> r.date]]))
    /\ nconn' = close(s)
    /\ served' = IF r.stored /\ ~DeleteInFlight(r.table)
                 THEN [served EXCEPT ![r.table] = @ \cup {<<r.date, r.bid, r.currency>>}]
                 ELSE served

\* The handler up to the store steps: the symbol, the table name, the
\* exchange call, the date, the bid check.
PriceFetch(s) ==
    /\ Free(s)
    /\ \E currency \in deploy.paths :
         LET symbol == PriceCurrencySymbol(currency)
             table  == PriceTableName(currency)
             start  == [Idle EXCEPT !.op = "price", !.currency = currency,
                                    !.table = table]
         IN  \/ \E e \in ExchangeErrors :
                  \* fetch_ticker raises: except ccxt.BaseError
                  /\ Step(s, Done([start EXCEPT !.fetch = e], NoException,
                                  HTTPException(<<"An error occurred with KuCoin API: ", e>>)))
                  /\ UNCHANGED <<db, nconn, served, dropped>>
             \/ \E bid \in {None} \cup {Some(p) : p \in Prices},
                   ts \in {None} \cup {Some(t) : t \in deploy.stamps} :
                  LET r == [start EXCEPT !.fetch = "ok",
                                         !.ticker = [bid |-> bid, timestamp |-> ts]]
                  IN  IF ts = None
                      THEN \* None / 1_000: a TypeError, which is no ccxt.BaseError
                           /\ Step(s, Done(r, NoException,
                                           Unhandled([type |-> "TypeError",
                                                      msg |-> <<"unsupported operand type(s) for /">>])))
                           /\ UNCHANGED <<db, nconn, served, dropped>>
                      ELSE IF bid = None
                      THEN /\ Step(s, Done([r EXCEPT !.date = FormatDate(Val(ts))], NoException,
                                           HTTPException(<<"Could not find bid price for ", symbol>>)))
                           /\ UNCHANGED <<db, nconn, served, dropped>>
                      ELSE /\ RowsClaimed < MaxRows
                           /\ Step(s, [r EXCEPT !.date = FormatDate(Val(ts)),
                                                !.bid = Val(bid),
                                                !.pc = "connect"])
                           /\ dropped' = [dropped EXCEPT ![table] = FALSE]
                           /\ UNCHANGED <<db, nconn, served>>

\* connection = connect(); cursor = connection.cursor()
PriceConnect(s) ==
    /\ req[s].op = "price" /\ req[s].pc = "connect"
    /\ \/ /\ Step(s, connect(req[s]))
          /\ nconn' = nconn + 1
          /\ served' = served
       \/ PriceFinally(s, connect_raises(req[s]), OperationalError)
    /\ UNCHANGED <<db, dropped>>

\* if not table_exist(table_name, cursor): ...
PriceTableExist(s) ==
    /\ req[s].op = "price" /\ req[s].pc = "exist"
    /\ \/ /\ Step(s, IF table_exist(req[s].table)
                     THEN [req[s] EXCEPT !.exists = "yes", !.pc = "insert"]
                     ELSE [req[s] EXCEPT !.exists = "no", !.pc = "create"])
          /\ UNCHANGED <<nconn, served>>
       \/ PriceFinally(s, req[s], OperationalError)
    /\ UNCHANGED <<db, dropped>>

\* A create_table on a connection in autocommit mode: the empty table is
\* durable at once.
PriceCreateTableAutocommit(s) ==
    /\ req[s].op = "price" /\ req[s].pc = "create"
    /\ \/ IF db[req[s].table].present
          THEN /\ PriceFinally(s, req[s], DuplicateTable(req[s].table))
               /\ db' = db
          ELSE /\ Step(s, [req[s] EXCEPT !.pc = "insert"])
               /\ db' = [db EXCEPT ![req[s].table] = [present |-> TRUE, rows |-> <<>>]]
               /\ UNCHANGED <<nconn, served>>
       \/ /\ PriceFinally(s, req[s], OperationalError)
          /\ db' = db
    /\ UNCHANGED dropped

\* create_table: CREATE TABLE inside the open transaction.  The statement
\* waits for a transaction that has created a table of the name, fails when
\* a table of the name is committed, and otherwise leaves the new table
\* visible to this transaction alone.
PriceCreateTable(s) ==
    /\ req[s].op = "price" /\ req[s].pc = "create"
    /\ \/ /\ ~OthersHold(s, {"create"}, req[s].table)
          /\ IF db[req[s].table].present
             THEN PriceFinally(s, req[s], DuplicateTable(req[s].table))
             ELSE /\ Step(s, [req[s] EXCEPT !.held = "create", !.pc = "insert"])
                  /\ UNCHANGED <<nconn, served>>
       \/ PriceFinally(s, req[s], OperationalError)
    /\ UNCHANGED <<db, dropped>>

\* An insert_data_to_table without its commit: the close rolls the row back.
PriceInsertNoCommit(s) ==
    /\ req[s].op = "price" /\ req[s].pc = "insert"
    /\ \/ IF req[s].held = "create" \/ db[req[s].table].present
          THEN PriceFinally(s, [req[s] EXCEPT !.stored = TRUE], NoException)
          ELSE PriceFinally(s, req[s], UndefinedTable(req[s].table))
       \/ PriceFinally(s, req[s], OperationalError)
    /\ UNCHANGED <<db, dropped>>

\* An insert_data_to_table that replaces the row of the same date, if any.
PriceInsertUpsert(s) ==
    /\ req[s].op = "price" /\ req[s].pc = "insert"
    /\ \/ LET t    == req[s].table
              row  == <<req[s].date, req[s].bid>>
              ok   == [req[s] EXCEPT !.stored = TRUE]
              same == {i \in DOMAIN db[t].rows : db[t].rows[i][1] = req[s].date}
          IN  IF req[s].held = "create"
              THEN /\ db' = [db EXCEPT ![t] = [present |-> TRUE, rows |-> <<row>>]]
                   /\ PriceFinally(s, ok, NoException)
              ELSE IF db[t].present
              THEN /\ db' = [db EXCEPT ![t].rows =
                                IF same = {} THEN Append(@, row)
                                ELSE [i \in DOMAIN @ |-> IF i \in same THEN row ELSE @[i]]]
                   /\ PriceFinally(s, ok, NoException)
              ELSE /\ db' = db
                   /\ PriceFinally(s, req[s], UndefinedTable(t))
       \/ /\ PriceFinally(s, req[s], OperationalError)
          /\ db' = db
    /\ UNCHANGED dropped

\* An insert_data_to_table after a create_table that committed on its own: a
\* failed INSERT leaves the created table behind.
PriceInsertAfterCommit(s) ==
    /\ req[s].op = "price" /\ req[s].pc = "insert"
    /\ \/ LET t   == req[s].table
              row == <<req[s].date, req[s].bid>>
              ok  == [req[s] EXCEPT !.stored = TRUE]
          IN  IF req[s].held = "create"
              THEN /\ db' = [db EXCEPT ![t] = [present |-> TRUE, rows |-> <<row>>]]
                   /\ PriceFinally(s, ok, NoException)
              ELSE IF db[t].present
              THEN /\ db' = [db EXCEPT ![t].rows = Append(@, row)]
                   /\ PriceFinally(s, ok, NoException)
              ELSE /\ db' = db
                   /\ PriceFinally(s, req[s], UndefinedTable(t))
       \/ /\ PriceFinally(s, req[s], OperationalError)
          /\ db' = IF req[s].held = "create"
                   THEN [db EXCEPT ![req[s].table] = [present |-> TRUE, rows |-> <<>>]]
                   ELSE db
    /\ UNCHANGED dropped

\* insert_data_to_table: the INSERT and connection.commit(), the one commit
\* of the request, which makes the created table (if any) and the row durable
\* together.  The INSERT fails when the table is neither committed nor
\* created by this transaction; a failure of either statement leaves nothing.
PriceInsert(s) ==
    /\ req[s].op = "price" /\ req[s].pc = "insert"
    /\ \/ LET t   == req[s].table
              row == <<req[s].date, req[s].bid>>
              ok  == [req[s] EXCEPT !.stored = TRUE]
          IN  IF req[s].held = "create"
              THEN /\ db' = [db EXCEPT ![t] = [present |-> TRUE, rows |-> <<row>>]]
                   /\ PriceFinally(s, ok, NoException)
              ELSE IF db[t].present
              THEN /\ db' = [db EXCEPT ![t].rows = Append(@, row)]
                   /\ PriceFinally(s, ok, NoException)
              ELSE /\ db' = db
                   /\ PriceFinally(s, req[s], UndefinedTable(t))
       \/ /\ PriceFinally(s, req[s], OperationalError)
          /\ db' = db
    /\ UNCHANGED dropped

(* --------------------- GET /price/history/{currency} ------------------ *)

\* The orders in which a SELECT without ORDER BY may return n rows.
FetchOrders(n) == {f \in [1..n -> 1..n] : \A i, j \in 1..n : f[i] = f[j] => i = j}

\* {t.strftime(...): float(v) for t, v in records}: one key for each date,
\* bound to the value of the last record fetched with that date.  A stored
\* date has second precision and formats to itself.
DictOf(records) ==
    [d \in {records[i][1] : i \in DOMAIN records} |->
        LET last == CHOOSE i \in DOMAIN records :
                       /\ records[i][1] = d
                       /\ \A j \in DOMAIN records : records[j][1] = d => j <= i
        IN  records[last][2]]

\* get_history_prices: SELECT date, value FROM table; fetchall; the dict.
get_history_prices(rows, f) == DictOf([i \in 1..Len(rows) |-> rows[f[i]]])

\* finally: cursor.close(), connection.close(); then return history_prices,
\* or the exception (none is a ccxt.BaseError) leaves the handler.
HistoryFinally(s, r, exc, history_prices) ==
    /\ Step(s, Done(r, exc,
                    IF exc = NoException
                    THEN [status |-> 200, kind |-> "history", body |-> history_prices]
                    ELSE Unhandled(exc)))
    /\ nconn' = close(s)

\* currency_symbol, table_name, connection = None, cursor = None
HistoryStart(s) ==
    /\ Free(s)
    /\ \E currency \in deploy.paths :
         LET table == HistoryTableName(currency)
         IN  Step(s, [Idle EXCEPT !.op = "history", !.currency = currency,
                                  !.table = table, !.was = db[table].present,
                                  !.pc = "connect"])
    /\ UNCHANGED <<db, nconn, served, dropped>>

\* connection = connect(); cursor = connection.cursor()
HistoryConnect(s) ==
    /\ req[s].op = "history" /\ req[s].pc = "connect"
    /\ \/ /\ Step(s, connect(req[s]))
          /\ nconn' = nconn + 1
       \/ HistoryFinally(s, connect_raises(req[s]), OperationalError, <<>>)
    /\ UNCHANGED <<db, served, dropped>>

\* if not table_exist(table_name, cursor): raise Exception(...)
HistoryTableExist(s) ==
    /\ req[s].op = "history" /\ req[s].pc = "exist"
    /\ \/ IF table_exist(req[s].table)
          THEN /\ Step(s, [req[s] EXCEPT !.exists = "yes", !.pc = "select"])
               /\ nconn' = nconn
          ELSE HistoryFinally(s, [req[s] EXCEPT !.exists = "no"],
                              TableMissing(req[s].table), <<>>)
       \/ HistoryFinally(s, req[s], OperationalError, <<>>)
    /\ UNCHANGED <<db, served, dropped>>

\* history_prices = get_history_prices(table_name, cursor), and the rest of
\* the handler.  The SELECT fails when the table is not there.
HistorySelect(s) ==
    /\ req[s].op = "history" /\ req[s].pc = "select"
    /\ \/ IF db[req[s].table].present
          THEN \E f \in FetchOrders(Len(db[req[s].table].rows)) :
                  HistoryFinally(s, req[s], NoException,
                                 get_history_prices(db[req[s].table].rows, f))
          ELSE HistoryFinally(s, req[s], UndefinedTable(req[s].table), <<>>)
       \/ HistoryFinally(s, req[s], OperationalError, <<>>)
    /\ UNCHANGED <<db, served, dropped>>

(* ------------------------ DELETE /delete/{currency} ------------------- *)

\* finally: cursor.close(), connection.close(); then return the flag, or the
\* exception (none is a ccxt.BaseError) leaves the handler.
DeleteFinally(s, r, exc) ==
    /\ Step(s, Done(r, exc,
                    IF exc = NoException
                    THEN [status |-> 200, kind |-> "deleted",
                          body |-> [Table_deleted_successfully |-> TRUE]]
                    ELSE Unhandled(exc)))
    /\ nconn' = close(s)

\* currency_symbol, table_name, connection = None, cursor = None
DeleteStart(s) ==
    /\ Free(s)
    /\ \E currency \in deploy.paths :
         LET table == DeleteTableName(currency)
         IN  /\ Step(s, [Idle EXCEPT !.op = "delete", !.currency = currency,
                                     !.table = table, !.was = db[table].present,
                                     !.pc = "connect"])
             /\ served' = [served EXCEPT ![table] = {}]
    /\ UNCHANGED <<db, nconn, dropped>>

\* connection = connect(); cursor = connection.cursor()
DeleteConnect(s) ==
    /\ req[s].op = "delete" /\ req[s].pc = "connect"
    /\ \/ /\ Step(s, connect(req[s]))
          /\ nconn' = nconn + 1
       \/ DeleteFinally(s, connect_raises(req[s]), OperationalError)
    /\ UNCHANGED <<db, served, dropped>>

\* A delete handler that goes on to the DROP when the table is not there.
DeleteTableExistLenient(s) ==
    /\ req[s].op = "delete" /\ req[s].pc = "exist"
    /\ \/ /\ Step(s, [req[s] EXCEPT
                          !.exists = IF table_exist(req[s].table) THEN "yes" ELSE "no",
                          !.pc = "drop"])
          /\ nconn' = nconn
       \/ DeleteFinally(s, req[s], OperationalError)
    /\ UNCHANGED <<db, served, dropped>>

\* if not table_exist(table_name, cursor): raise Exception(...)
DeleteTableExist(s) ==
    /\ req[s].op = "delete" /\ req[s].pc = "exist"
    /\ \/ IF table_exist(req[s].table)
          THEN /\ Step(s, [req[s] EXCEPT !.exists = "yes", !.pc = "drop"])
               /\ nconn' = nconn
          ELSE DeleteFinally(s, [req[s] EXCEPT !.exists = "no"], TableMissing(req[s].table))
       \/ DeleteFinally(s, req[s], OperationalError)
    /\ UNCHANGED <<db, served, dropped>>

\* A delete_table_from_db without its commit: the close rolls the DROP back.
DeleteDropNoCommit(s) ==
    /\ req[s].op = "delete" /\ req[s].pc = "drop"
    /\ \/ DeleteFinally(s, req[s], NoException)
       \/ DeleteFinally(s, req[s], OperationalError)
    /\ UNCHANGED <<db, served, dropped>>

\* delete_table_from_db: DROP TABLE IF EXISTS and connection.commit(): the
\* table and its rows are gone (nothing happens when the table is not there);
\* and the rest of the handler.
DeleteDrop(s) ==
    /\ req[s].op = "delete" /\ req[s].pc = "drop"
    /\ \/ LET t == req[s].table
          IN  /\ db' = [db EXCEPT ![t] = EmptyTable]
              /\ dropped' = IF db[t].present
                            THEN [dropped EXCEPT ![t] = ~OthersInFlight(s, t)]
                            ELSE dropped
              /\ DeleteFinally(s, req[s], NoException)
       \/ /\ DeleteFinally(s, req[s], OperationalError)
          /\ UNCHANGED <<db, dropped>>
    /\ served' = served

(* --------------------------- specification ---------------------------- *)

Next ==
    \E s \in Slots :
        \/ PriceFetch(s)
        \/ PriceConnect(s)
        \/ PriceTableExist(s)
        \/ PriceCreateTable(s)
        \/ PriceInsert(s)
        \/ HistoryStart(s)
        \/ HistoryConnect(s)
        \/ HistoryTableExist(s)
        \/ HistorySelect(s)
        \/ DeleteStart(s)
        \/ DeleteConnect(s)
        \/ DeleteTableExist(s)
        \/ DeleteDrop(s)

Spec == Init /\ [][Next]_vars

(* ------------------------------ properties --------------------------- *)

\* The request in slot s is a finished request of handler op.
Finished(s, op) == req[s].op = op /\ req[s].pc = "done"

PriceRejectsWith400 ==
    \A s \in Slots :
        LET r == req[s] IN
        (Finished(s, "price") /\ (r.fetch # "ok" \/ r.ticker.bid = None))
        => /\ r.resp.status = 400
           /\ r.resp.body = IF r.fetch # "ok"
                            THEN <<"An error occurred with KuCoin API: ", r.fetch>>
                            ELSE <<"Could not find bid price for ",
                                   PriceCurrencySymbol(r.currency)>>
           /\ ~r.called
           /\ ~r.stored

\* C6: the store has exactly the connections open that the requests in flight
\* hold, so none when no request is in flight: every request that ended, by
\* whatever path, has closed its own.
ConnectionsClosed ==
    /\ nconn = Cardinality({s \in Slots : req[s].conn})
    /\ \A s \in Slots : req[s].conn => InFlight(s)
    /\ (\A s \in Slots : ~InFlight(s)) => nconn = 0

\* C6, its case: a request that connected and ended with the table-absent
\* error, no request in flight and no connection open.
ClosedAfterTableMissing ==
    \E s \in Slots :
        /\ req[s].pc = "done" /\ req[s].op \in {"history", "delete"}
        /\ req[s].called
        /\ req[s].exc = TableMissing(req[s].table)
        /\ \A o \in Slots : ~InFlight(o)
        /\ nconn = 0

\* C9: a price request whose CREATE TABLE failed because the table had been
\* created since its existence check found none stores no row and is still
\* answered with its price; the table is there, with the row (or rows) of the
\* requests that did store.
LoserOfCreateRace ==
    \A s \in Slots :
        LET r == req[s] IN
        (Finished(s, "price") /\ r.exc = DuplicateTable(r.table))
        => /\ r.exists = "no"
           /\ ~r.stored
           /\ r.resp.status = 200 /\ r.resp.kind = "price"
           /\ r.resp.body.last_bid_price = r.bid
           /\ db[r.table].present
           /\ Len(db[r.table].rows) >= 1

\* C9, its case: a price request whose existence check found no table and
\* whose CREATE TABLE then failed.
CreateRaceLost ==
    \E s \in Slots :
        /\ Finished(s, "price")
        /\ req[s].exists = "no"
        /\ req[s].exc = DuplicateTable(req[s].table)

\* C10: every table of the store holds at least one row, each row a date and
\* a price, and a history request that succeeds returns a mapping with at
\* least one key.
NoEmptyTable ==
    /\ \A t \in TableNames :
          /\ db[t].present => Len(db[t].rows) >= 1
          /\ ~db[t].present => db[t].rows = <<>>
          /\ \A i \in DOMAIN db[t].rows : db[t].rows[i] \in Dates \X Prices
    /\ \A s \in Slots :
          (Finished(s, "history") /\ req[s].resp.kind = "history")
          => DOMAIN req[s].resp.body # {}

\* C10, its case: a price request that created its table and failed to
\* insert, the table not there afterwards.
CreateRolledBack ==
    \E s \in Slots :
        /\ Finished(s, "price")
        /\ req[s].held = "create"
        /\ ~req[s].stored
        /\ ~db[req[s].table].present

\* The values of the rows of table t whose date is d.
ValuesAt(t, d) ==
    {db[t].rows[i][2] : i \in {j \in DOMAIN db[t].rows : db[t].rows[j][1] = d}}

\* The value of the last-inserted row of table t whose date is d.
LastValueAt(t, d) ==
    LET last == CHOOSE i \in DOMAIN db[t].rows :
                   /\ db[t].rows[i][1] = d
                   /\ \A j \in DOMAIN db[t].rows : db[t].rows[j][1] = d => j <= i
    IN  db[t].rows[last][2]

\* C2 (as the specification states it): a history request that follows price
\* requests answered with date d and price p, no DELETE request in between,
\* returns a mapping with p at key d.
HistoryHasServedPrice ==
    \A s \in Slots :
        LET r == req[s] IN
        Finished(s, "history")
        => \A e \in served[r.table] :
              /\ r.resp.kind = "history"
              /\ e[1] \in DOMAIN r.resp.body
              /\ r.resp.body[e[1]] = e[2]

\* C2: a history request that follows price requests which stored their row
\* (date d, price p), no DELETE request in between, ends with no exception or
\* with the store's own error, never because the table is not there; the
\* mapping it returns has the key d, bound to the value of a stored row of
\* date d, which is p when no other value is stored at d.
HistoryHasStoredDate ==
    \A s \in Slots :
        LET r == req[s] IN
        Finished(s, "history")
        => \A e \in served[r.table] :
              /\ r.exc \in {NoException, OperationalError}
              /\ r.exc = NoException =>
                    /\ r.resp.status = 200 /\ r.resp.kind = "history"
                    /\ e[1] \in DOMAIN r.resp.body
                    /\ e[2] \in ValuesAt(r.table, e[1])
                    /\ r.resp.body[e[1]] \in ValuesAt(r.table, e[1])
                    /\ ValuesAt(r.table, e[1]) = {e[2]} => r.resp.body[e[1]] = e[2]

\* C2, its case: a history request that returns the two dates and prices
\* that two price requests stored.
HistoryOfTwoDates ==
    \E s \in Slots :
        /\ Finished(s, "history")
        /\ req[s].resp.kind = "history"
        /\ \A e \in served[req[s].table] :
              e[1] \in DOMAIN req[s].resp.body /\ req[s].resp.body[e[1]] = e[2]
        /\ {e[1] : e \in served[req[s].table]} = DOMAIN req[s].resp.body
        /\ Cardinality(DOMAIN req[s].resp.body) = 2

\* C4 (as the specification states it): a DELETE request issued while the
\* table is there succeeds and leaves no table, and a history request that
\* follows a drop, no price request in between, fails with "Table <name> does
\* not exist."
DeleteThenHistoryFails ==
    /\ \A s \in Slots :
          (Finished(s, "delete") /\ req[s].was)
          => req[s].resp.kind = "deleted" /\ ~db[req[s].table].present
    /\ \A s \in Slots :
          (Finished(s, "history") /\ dropped[req[s].table])
          => req[s].resp = Unhandled(TableMissing(req[s].table))

\* C4: a DELETE request whose existence check finds the table and whose store
\* steps raise no error answers {"Table deleted successfully": true} and
\* leaves no table; served one at a time, a DELETE request issued while the
\* table is there finds it.  After a drop, no price request in between, the
\* table is not there, and a history request fails with "Table <name> does
\* not exist." unless the store raises an error of its own.
DropRemovesTable ==
    /\ \A s \in Slots :
          LET r == req[s] IN
          Finished(s, "delete")
          => /\ (r.exists = "yes" /\ r.exc # OperationalError)
                  => /\ r.resp = [status |-> 200, kind |-> "deleted",
                                  body |-> [Table_deleted_successfully |-> TRUE]]
                     /\ db[r.table] = EmptyTable
             /\ (r.was /\ deploy.workers = {1}) => r.exists # "no"
    /\ \A t \in TableNames : dropped[t] => db[t] = EmptyTable
    /\ \A s \in Slots :
          LET r == req[s] IN
          (Finished(s, "history") /\ dropped[r.table])
          => /\ r.exc \in {TableMissing(r.table), OperationalError}
             /\ r.resp = Unhandled(r.exc)
             /\ r.exc # OperationalError => r.exists = "no"

\* C4, its case: a history request that follows a drop and fails with "Table
\* <name> does not exist."
HistoryAfterDrop ==
    \E s \in Slots :
        /\ Finished(s, "history")
        /\ dropped[req[s].table]
        /\ req[s].resp = Unhandled(TableMissing(req[s].table))

\* C5 (as the specification states it): a DELETE or history request issued
\* while the table is not there fails with "Table <name> does not exist.",
\* and so does a DELETE request that follows a drop.
AbsentTableFails ==
    \A s \in Slots :
        LET r == req[s] IN
        (r.pc = "done" /\ r.op \in {"history", "delete"} /\ ~r.was)
        => r.resp = Unhandled(TableMissing(r.table))

\* A DELETE or history request ends in this step.
Ends(s) ==
    /\ req[s].pc # "done"
    /\ req'[s].pc = "done"
    /\ req'[s].op \in {"history", "delete"}

\* C5: a DELETE or history request whose existence check finds no table
\* fails with "Table <name> does not exist."; one that is issued while the
\* table is not there and served with no other request in flight, or that
\* follows a drop with no price request in between, fails with that error or
\* with the store's own, and never succeeds; and the store is changed by no
\* DELETE or history request but a DELETE whose check found the table.
AbsentTableLeftAlone ==
    /\ [](\A s \in Slots :
            LET r == req[s] IN
            (r.pc = "done" /\ r.op \in {"history", "delete"})
            => /\ r.exists = "no" =>
                     /\ r.exc = TableMissing(r.table)
                     /\ r.resp = Unhandled(r.exc)
               /\ (~r.was /\ deploy.workers = {1}) =>
                     /\ r.exc \in {TableMissing(r.table), OperationalError}
                     /\ r.resp = Unhandled(r.exc))
    /\ [][\A s \in Slots :
            Ends(s) =>
              /\ dropped[req[s].table] =>
                    /\ req'[s].exc \in {TableMissing(req[s].table), OperationalError}
                    /\ req'[s].resp = Unhandled(req'[s].exc)
              /\ ~(req'[s].op = "delete" /\ req'[s].exists = "yes") => db' = db]_vars

\* C5, its case: a second DELETE request, which follows a drop and fails with
\* "Table <name> does not exist."
SecondDeleteFails ==
    \E s \in Slots :
        /\ Finished(s, "delete")
        /\ dropped[req[s].table]
        /\ req[s].exists = "no"
        /\ req[s].resp = Unhandled(TableMissing(req[s].table))

\* C7 (as the specification states it): a history request that succeeds
\* returns, for each date, the value of the last-inserted row of that date.
HistoryLastWriteWins ==
    \A s \in Slots :
        LET r == req[s] IN
        (Finished(s, "history") /\ r.resp.kind = "history")
        => \A d \in DOMAIN r.resp.body : r.resp.body[d] = LastValueAt(r.table, d)

\* C7: the rows of a table change only by the append of one row or by the
\* drop of the table, and a history request that succeeds returns one entry
\* for each date of the table's rows, whose value is that of a row of that
\* date (the last one the SELECT returned, in an order the query leaves open).
AppendOnlyOneEntryPerDate ==
    /\ [][\A t \in TableNames :
            \/ db'[t] = db[t]
            \/ db'[t] = EmptyTable
            \/ /\ db'[t].present
               /\ \E row \in Dates \X Prices : db'[t].rows = Append(db[t].rows, row)]_vars
    /\ [](\A s \in Slots :
            LET r == req[s] IN
            (Finished(s, "history") /\ r.resp.kind = "history")
            => /\ DOMAIN r.resp.body = {db[r.table].rows[i][1] : i \in DOMAIN db[r.table].rows}
               /\ \A d \in DOMAIN r.resp.body : r.resp.body[d] \in ValuesAt(r.table, d))

\* C7, its case: a history request on a table with two rows of one date and
\* different values, which returns one entry.
TwoRowsOneEntry ==
    \E s \in Slots :
        LET r == req[s] IN
        /\ Finished(s, "history") /\ r.resp.kind = "history"
        /\ Len(db[r.table].rows) = 2
        /\ db[r.table].rows[1][1] = db[r.table].rows[2][1]
        /\ db[r.table].rows[1][2] # db[r.table].rows[2][2]
        /\ Cardinality(DOMAIN r.resp.body) = 1

\* lowercase(currency) followed by "_usdt".
TableOf(currency) == Lower(currency) \o <<"_", "u", "s", "d", "t">>

\* C8: every request works on the table lowercase(currency) + "_usdt",
\* whichever handler derived the name; currencies that differ in letter case
\* only have one table, other currencies have different tables; and a
\* table changes only through a request for its own currency.
OneTablePerCurrency ==
    /\ [](\A s \in Slots : req[s].op # "none" => req[s].table = TableOf(req[s].currency))
    /\ [](\A c1, c2 \in Currencies :
            LET names1 == {PriceTableName(c1), HistoryTableName(c1), DeleteTableName(c1)}
                names2 == {PriceTableName(c2), HistoryTableName(c2), DeleteTableName(c2)}
            IN  IF Lower(c1) = Lower(c2)
                THEN names1 = names2 /\ Cardinality(names1) = 1
                ELSE names1 \cap names2 = {})
    /\ [][\A t \in TableNames :
            db'[t] # db[t] =>
               \E s \in Slots :
                  /\ req[s].pc # "done" /\ req'[s].pc = "done"
                  /\ req'[s].op \in {"price", "delete"}
                  /\ TableOf(req'[s].currency) = t]_vars

\* C8, its case: a history request that returns the price a price request
\* stored under another spelling of the currency.
CaseVariantsShareTable ==
    \E s \in Slots :
        LET r == req[s] IN
        /\ Finished(s, "history") /\ r.resp.kind = "history"
        /\ \E e \in served[r.table] :
              /\ e[3] # r.currency
              /\ e[1] \in DOMAIN r.resp.body
              /\ r.resp.body[e[1]] = e[2]

====
